---------------------------- MODULE Spec2Model ----------------------------
(* URL shortener (server.js): the Url collection behind a unique index on  *)
(* shortUrl, and the request handlers POST /shorten, POST /delete/:id and  *)
(* GET /<segment>.  A handler runs atomically between two awaits; every    *)
(* awaited store operation is one step of the request that issued it, so   *)
(* concurrent requests interleave at exactly the awaits of the code.       *)
(* Short codes, aliases and path segments are sequences of one-character   *)
(* strings; target URLs are opaque strings (the server never parses them). *)
EXTENDS Integers, Sequences, FiniteSets, Bags, TLC

VARIABLES urls, reqs, nextId

vars == <<urls, reqs, nextId>>

-----------------------------------------------------------------------------
(* Bounds *)

\* requests issued in a run of Spec
MaxReqs == 3

\* requests issued in a run of SpecPolicy
MaxPolicyReqs == 2

\* requests issued in a run of SpecReuse
MaxReuseReqs == 4

\* requests issued in a run of SpecProto
MaxProtoReqs == 3

-----------------------------------------------------------------------------
(* Values *)

\* null / undefined, one per type of value it stands in for
null == <<"null">>
noUser == "null"
noDoc == [ _id |-> 0, fullUrl |-> "", shortUrl |-> <<>>, user |-> "null", clicks |-> 0,
           createdAt |-> 0 ]

NoRes == <<>>

\* const chars = 'ABC...XYZabc...xyz0123456789'
chars ==
  << "A","B","C","D","E","F","G","H","I","J","K","L","M",
     "N","O","P","Q","R","S","T","U","V","W","X","Y","Z",
     "a","b","c","d","e","f","g","h","i","j","k","l","m",
     "n","o","p","q","r","s","t","u","v","w","x","y","z",
     "0","1","2","3","4","5","6","7","8","9" >>

CodeLen == 6

MaxAttempts == 5

Users == {"u1", "u2"}

\* the lower-case letter of each upper-case letter of chars
LowerOf == [c \in {chars[i] : i \in 1..26} |->
              chars[(CHOOSE i \in 1..26 : chars[i] = c) + 26]]

\* String.prototype.toLowerCase on one character
ToLowerChar(c) == IF c \in DOMAIN LowerOf THEN LowerOf[c] ELSE c

ToLower(s) == [i \in 1..Len(s) |-> ToLowerChar(s[i])]

IsSpace(c) == c \in {" ", "\t"}

RECURSIVE TrimLeft(_)
TrimLeft(s) ==
  IF s # <<>> /\ IsSpace(Head(s)) THEN TrimLeft(Tail(s)) ELSE s

RECURSIVE TrimRight(_)
TrimRight(s) ==
  IF s # <<>> /\ IsSpace(s[Len(s)])
    THEN TrimRight(SubSeq(s, 1, Len(s) - 1))
    ELSE s

\* String.prototype.trim
Trim(s) == TrimRight(TrimLeft(s))

\* let short = custom && custom.trim() ? custom.trim() : null
CustomShort(custom) ==
  IF custom # null /\ custom # <<>> /\ Trim(custom) # <<>>
    THEN Trim(custom)
    ELSE null

\* generateCode: six draws d[i] = Math.floor(Math.random() * chars.length),
\* each in 0..61, appended as chars.charAt(d[i])
generateCode(d) == [i \in 1..CodeLen |-> chars[d[i] + 1]]

-----------------------------------------------------------------------------
(* The Url collection *)

\* Url.findOne({ shortUrl: s }): the matching document or null
findOne(s) ==
  IF \E u \in urls : u.shortUrl = s
    THEN CHOOSE u \in urls : u.shortUrl = s
    ELSE noDoc

\* a collection without the unique index accepts every insert
DuplicateKey_NoIndex(s) == FALSE

\* the unique index on shortUrl rejects an insert of a duplicate key
DuplicateKey(s) == \E u \in urls : u.shortUrl = s

\* the document Url.create inserts: clicks and createdAt take the schema
\* defaults; the clock read by Date.now is the number of the creation
NewDoc(fullUrl, short, user) ==
  [ _id |-> nextId, fullUrl |-> fullUrl, shortUrl |-> short,
    user |-> user, clicks |-> 0, createdAt |-> nextId ]


\* Url.create({ fullUrl, shortUrl, user }) when the index accepts the key
Insert(doc) == urls \cup {doc}

\* a delete that selects by _id alone
findOneAndDelete_AnyUser(id, user) ==
  {u \in urls : u._id # id}

\* a delete that detaches the Link from its owner and keeps the document
findOneAndDelete_Soft(id, user) ==
  {IF u._id = id /\ u.user = user THEN [u EXCEPT !.user = noUser] ELSE u : u \in urls}

\* Url.findOneAndDelete({ _id: id, user: user })
findOneAndDelete(id, user) ==
  {u \in urls : ~(u._id = id /\ u.user = user)}

\* an update whose filter is lost: every document is incremented
findByIdAndUpdateInc_All(url) ==
  {[u EXCEPT !.clicks = u.clicks + 1] : u \in urls}

\* an update with the sign of the increment wrong: { $inc: { clicks: -1 } }
findByIdAndUpdateInc_Minus(url) ==
  {IF u._id = url._id THEN [u EXCEPT !.clicks = u.clicks - 1] ELSE u : u \in urls}

\* a read-modify-write of the count the handler read at lookup time
findByIdAndUpdateInc_Stale(url) ==
  {IF u._id = url._id THEN [u EXCEPT !.clicks = url.clicks + 1] ELSE u : u \in urls}

\* an update issued with { upsert: true }: a missing id is inserted again
findByIdAndUpdateInc_Upsert(url) ==
  IF \E u \in urls : u._id = url._id
    THEN {IF u._id = url._id THEN [u EXCEPT !.clicks = u.clicks + 1] ELSE u : u \in urls}
    ELSE urls \cup {[url EXCEPT !.clicks = url.clicks + 1]}

\* Url.findByIdAndUpdate(id, { $inc: { clicks: 1 } }): the store adds 1 to
\* the value it holds at the time of the update; nothing matches a deleted id
findByIdAndUpdateInc(url) ==
  {IF u._id = url._id THEN [u EXCEPT !.clicks = u.clicks + 1] ELSE u : u \in urls}

\* a query without the owner filter: Url.find({})
find_All(user) == urls

\* Url.find({ user: user })
find(user) == {u \in urls : u.user = user}

RECURSIVE SumClicks(_)
\* urls.reduce((sum, url) => sum + (url.clicks || 0), 0)
SumClicks(S) ==
  IF S = {} THEN 0
  ELSE LET u == CHOOSE x \in S : TRUE IN u.clicks + SumClicks(S \ {u})

-----------------------------------------------------------------------------
(* Requests *)

\* a token cookie: its payload's user id and whether jwt.verify accepts it
Token(u, ok) == <<"jwt", u, ok>>

\* a middleware that decodes the payload without verifying the signature
authMiddleware_Decode(token) ==
  IF token = null THEN noUser ELSE token[2]

\* authMiddleware: req.user is the decoded payload of a verified token
authMiddleware(token) ==
  IF token = null THEN noUser
  ELSE IF token[3] THEN token[2]
  ELSE noUser


\* the route table, matched in registration order; Express matches paths
\* case-insensitively unless 'case sensitive routing' is enabled
Route(path) ==
  LET p == ToLower(path) IN
  IF p = <<>> THEN "index"
  ELSE IF p = <<"d","a","s","h","b","o","a","r","d">> THEN "dashboard"
  ELSE IF p = <<"l","o","g","i","n">> THEN "login"
  ELSE IF p = <<"r","e","g","i","s","t","e","r">> THEN "register"
  ELSE IF p = <<"l","o","g","o","u","t">> THEN "logout"
  ELSE "short"

Redirect(to) == <<"redirect", to>>
Send(text)   == <<"send", text>>
Render(view) == <<"render", view>>
Unhandled(e) == <<"unhandledRejection", e>>

\* the status line Express writes: res.send and res.render answer 200 and
\* res.redirect answers 302 unless the handler sets a status, and no handler
\* of server.js sets one
Status(res) ==
  IF res = NoRes THEN 0
  ELSE CASE res[1] = "redirect" -> 302
         [] res[1] = "send"     -> 200
         [] res[1] = "render"   -> 200
         [] OTHER               -> 0

AliasTaken == Send("Custom alias already taken")
AllocationExhausted == Send("Could not generate unique short URL, try again")
NotFound == Send("URL not found")

BlankReq ==
  [ kind |-> "", token |-> null, user |-> noUser, pc |-> "done", res |-> NoRes,
    fullUrl |-> "", custom |-> null, short |-> null, attempts |-> 0,
    id |-> 0, path |-> <<>>, url |-> noDoc, made |-> 0 ]

Arrive(q) ==
  /\ reqs' = reqs (+) SetToBag({q})
  /\ UNCHANGED <<urls, nextId>>

Step(r, q) == reqs' = (reqs (-) SetToBag({r})) (+) SetToBag({q})

At(r, kind, pc) ==
  /\ BagIn(r, reqs)
  /\ r.kind = kind
  /\ r.pc = pc

\* POST /shorten up to its first await
ShortenStart(token, fullUrl, custom, d) ==
  LET user  == authMiddleware(token)
      short == CustomShort(custom)
      q     == [BlankReq EXCEPT !.kind = "shorten", !.token = token, !.user = user,
                                !.fullUrl = fullUrl, !.custom = custom]
  IN  IF user = noUser THEN Arrive([q EXCEPT !.res = Redirect("/login")])
      ELSE IF fullUrl = "" THEN Arrive([q EXCEPT !.res = Redirect("/dashboard")])
      ELSE IF short # null
        THEN Arrive([q EXCEPT !.short = short, !.pc = "customFind"])
        ELSE Arrive([q EXCEPT !.short = generateCode(d), !.attempts = 1,
                              !.pc = "randFind"])

\* a handler that takes over a taken alias instead of refusing it
ShortenCustomFind_Overwrite(r) ==
  /\ At(r, "shorten", "customFind")
  /\ LET q == r
         exists == findOne(q.short)
     IN  IF exists # noDoc
           THEN /\ urls' = (urls \ {exists}) \cup
                            {[exists EXCEPT !.fullUrl = q.fullUrl, !.user = q.user]}
                /\ Step(r, [q EXCEPT !.res = Redirect("/dashboard"), !.pc = "done"])
           ELSE /\ urls' = urls
                /\ Step(r, [q EXCEPT !.pc = "create"])
  /\ UNCHANGED nextId

\* const exists = await Url.findOne({ shortUrl: short }) on the custom path
ShortenCustomFind(r) ==
  /\ At(r, "shorten", "customFind")
  /\ LET q == r IN
       IF findOne(q.short) # noDoc
         THEN Step(r, [q EXCEPT !.res = AliasTaken, !.pc = "done"])
         ELSE Step(r, [q EXCEPT !.pc = "create"])
  /\ UNCHANGED <<urls, nextId>>

\* a loop whose bound is off by one: while (exists && attempts <= 5)
ShortenRandFind_OffByOne(r, d) ==
  /\ At(r, "shorten", "randFind")
  /\ LET q == r
         exists == findOne(q.short)
     IN  IF exists # noDoc /\ q.attempts <= MaxAttempts
           THEN Step(r, [q EXCEPT !.short = generateCode(d),
                                  !.attempts = q.attempts + 1])
         ELSE IF exists # noDoc
           THEN Step(r, [q EXCEPT !.res = AllocationExhausted, !.pc = "done"])
         ELSE Step(r, [q EXCEPT !.pc = "create"])
  /\ UNCHANGED <<urls, nextId>>

\* one turn of do { ... } while (exists && attempts < 5)
ShortenRandFind(r, d) ==
  /\ At(r, "shorten", "randFind")
  /\ LET q == r
         exists == findOne(q.short)
     IN  IF exists # noDoc /\ q.attempts < MaxAttempts
           THEN Step(r, [q EXCEPT !.short = generateCode(d),
                                  !.attempts = q.attempts + 1])
         ELSE IF exists # noDoc
           THEN Step(r, [q EXCEPT !.res = AllocationExhausted, !.pc = "done"])
         ELSE Step(r, [q EXCEPT !.pc = "create"])
  /\ UNCHANGED <<urls, nextId>>

\* a handler that answers without awaiting the create it issues
ShortenCreate_RespondFirst(r) ==
  /\ At(r, "shorten", "create")
  /\ Step(r, [r EXCEPT !.res = Redirect("/dashboard"), !.pc = "creating"])
  /\ UNCHANGED <<urls, nextId>>

\* await Url.create(...); res.redirect('/dashboard').  A rejected create is
\* not caught by the handler: no response is sent by it
ShortenCreate(r) ==
  /\ At(r, "shorten", "create")
  /\ LET q == r IN
       IF DuplicateKey(q.short)
         THEN /\ Step(r, [q EXCEPT !.res = Unhandled("E11000"), !.pc = "failed"])
              /\ UNCHANGED <<urls, nextId>>
         ELSE /\ urls' = Insert(NewDoc(q.fullUrl, q.short, q.user))
              /\ nextId' = nextId + 1
              /\ Step(r, [q EXCEPT !.res = Redirect("/dashboard"),
                                   !.made = nextId, !.pc = "done"])

\* POST /delete/:id up to its await
DeleteStart(token, id) ==
  LET user == authMiddleware(token)
      q    == [BlankReq EXCEPT !.kind = "delete", !.token = token, !.user = user,
                               !.id = id]
  IN  IF user = noUser THEN Arrive([q EXCEPT !.res = Redirect("/login")])
      ELSE Arrive([q EXCEPT !.pc = "delete"])

\* await Url.findOneAndDelete(...); res.redirect('/dashboard')
DeleteExec(r) ==
  /\ At(r, "delete", "delete")
  /\ urls' = findOneAndDelete(r.id, r.user)
  /\ Step(r, [r EXCEPT !.res = Redirect("/dashboard"), !.pc = "done"])
  /\ UNCHANGED nextId

\* GET /<path>: the first matching route handles the request
GetStart(token, path) ==
  LET user  == authMiddleware(token)
      route == Route(path)
      q     == [BlankReq EXCEPT !.kind = route, !.token = token, !.user = user,
                                !.path = path]
  IN  CASE route = "index"     -> Arrive([q EXCEPT !.res = Render("index")])
        [] route = "login"     -> Arrive([q EXCEPT !.res = Render("login")])
        [] route = "register"  -> Arrive([q EXCEPT !.res = Render("register")])
        [] route = "logout"    -> Arrive([q EXCEPT !.res = Redirect("/")])
        [] route = "dashboard" ->
             IF user = noUser THEN Arrive([q EXCEPT !.res = Redirect("/login")])
             ELSE Arrive([q EXCEPT !.pc = "find"])
        [] route = "short"     -> Arrive([q EXCEPT !.short = path, !.pc = "find"])

\* const urls = await Url.find({ user: req.user.id }); res.render("dashboard")
DashboardFind(r) ==
  /\ At(r, "dashboard", "find")
  /\ LET mine == find(r.user) IN
       Step(r, [r EXCEPT
                  !.res = <<"render", "dashboard", mine, SumClicks(mine),
                            Cardinality(mine)>>,
                  !.pc = "done"])
  /\ UNCHANGED <<urls, nextId>>

\* a handler that sends visitors of an unknown code to the home page
RedirectFind_Home(r) ==
  /\ At(r, "short", "find")
  /\ LET q == r
         url == findOne(q.short)
     IN  IF url = noDoc
           THEN Step(r, [q EXCEPT !.res = Redirect("/"), !.pc = "done"])
           ELSE Step(r, [q EXCEPT !.url = url, !.pc = "inc"])
  /\ UNCHANGED <<urls, nextId>>

\* const url = await Url.findOne({ shortUrl: req.params.short })
RedirectFind(r) ==
  /\ At(r, "short", "find")
  /\ LET q == r
         url == findOne(q.short)
     IN  IF url = noDoc
           THEN Step(r, [q EXCEPT !.res = NotFound, !.pc = "done"])
           ELSE Step(r, [q EXCEPT !.url = url, !.pc = "inc"])
  /\ UNCHANGED <<urls, nextId>>

\* await Url.findByIdAndUpdate(...); res.redirect(url.fullUrl)
RedirectInc(r) ==
  /\ At(r, "short", "inc")
  /\ urls' = findByIdAndUpdateInc(r.url)
  /\ Step(r, [r EXCEPT !.res = Redirect(r.url.fullUrl),
                             !.pc = "done"])
  /\ UNCHANGED nextId

\* the positions at which a handler awaits a store operation
Awaiting == {"customFind", "randFind", "create", "delete", "find", "inc"}

\* the awaited store operation rejects (connection lost, timeout); no handler
\* has a try/catch, so the rejection ends it without a response
StoreFails(r) ==
  /\ BagIn(r, reqs)
  /\ r.pc \in Awaiting
  /\ Step(r, [r EXCEPT !.res = Unhandled("MongoError"), !.pc = "failed"])
  /\ UNCHANGED <<urls, nextId>>

-----------------------------------------------------------------------------
(* Inputs *)

\* outcomes of six consecutive Math.random draws, as indices into chars
AAAAAA == <<0, 0, 0, 0, 0, 0>>
logout == <<37, 40, 32, 40, 46, 45>>

T1 == "https://a.example/x"
T2 == "http://b.example/y"

\* no cookie, a verified token of each user, a token that fails verification
Tokens == {null, Token("u1", FALSE)} \cup {Token(u, TRUE) : u \in Users}

ab        == <<"a","b">>
dashboard == <<"d","a","s","h","b","o","a","r","d">>

\* custom fields submitted in SpecPolicy
Aliases ==
  { null, <<>>, <<" "," ">>, ab, <<" ","a","b"," ">>, <<"a">>,
    <<"a","d","m","i","n">>, <<"m","y","_","l","i","n","k","-","1">>,
    <<"b","a","d"," ","a","l","i","a","s","!">>,
    [i \in 1..21 |-> "x"], dashboard, <<"L","o","g","i","n">> }

Init ==
  /\ urls = {}
  /\ reqs = EmptyBag
  /\ nextId = 1

Requests(n, tokens, targets, customs, draws, ids, paths) ==
  \/ /\ BagCardinality(reqs) < n
     /\ \E t \in tokens, f \in targets, c \in customs, d \in draws :
          ShortenStart(t, f, c, d)
  \/ \E r \in BagToSet(reqs) : ShortenCustomFind(r)
  \/ \E r \in BagToSet(reqs), d \in draws : ShortenRandFind(r, d)
  \/ \E r \in BagToSet(reqs) : ShortenCreate(r)
  \/ /\ BagCardinality(reqs) < n
     /\ \E t \in tokens, id \in ids : DeleteStart(t, id)
  \/ \E r \in BagToSet(reqs) : DeleteExec(r)
  \/ /\ BagCardinality(reqs) < n
     /\ \E t \in tokens, p \in paths : GetStart(t, p)
  \/ \E r \in BagToSet(reqs) : DashboardFind(r)
  \/ \E r \in BagToSet(reqs) : RedirectFind(r)
  \/ \E r \in BagToSet(reqs) : RedirectInc(r)

\* concurrent requests of two users, or without a cookie, on two codes
Next ==
  Requests(MaxReqs, {null} \cup {Token(u, TRUE) : u \in Users}, {T1}, {null, generateCode(AAAAAA), ab}, {AAAAAA},
           1..2, {generateCode(AAAAAA), ab, dashboard})

Spec == Init /\ [][Next]_vars

\* one user, the alias and path inputs of the alias policy and the route table
NextPolicy ==
  Requests(MaxPolicyReqs, {Token("u1", TRUE)}, {T1, T2, ""}, Aliases,
           {AAAAAA, logout}, {1},
           (Aliases \ {null}) \cup {generateCode(AAAAAA), generateCode(logout)})

SpecPolicy == Init /\ [][NextPolicy]_vars

\* targets submitted in SpecTarget that are not absolute http(s) URLs
TJs  == "javascript:alert(1)"
TFtp == "ftp://c.example/z"
TRel == "example.com/page"

\* one user, target URLs of several schemes and without a scheme
NextTarget ==
  Requests(MaxPolicyReqs, {Token("u1", TRUE)}, {T1, T2, "", TJs, TFtp, TRel},
           {null, ab}, {AAAAAA}, {1}, {ab, generateCode(AAAAAA), dashboard})

SpecTarget == Init /\ [][NextTarget]_vars

\* requests with every kind of cookie on one code
NextAuth ==
  Requests(MaxReqs, Tokens, {T1}, {null, ab}, {AAAAAA}, {1}, {ab, dashboard})

SpecAuth == Init /\ [][NextAuth]_vars

\* two users creating, visiting and deleting Links on one code, which the
\* random draw and the custom alias both produce
NextReuse ==
  Requests(MaxReuseReqs, {Token(u, TRUE) : u \in Users}, {T1},
           {null, generateCode(AAAAAA)}, {AAAAAA}, {1},
           {generateCode(AAAAAA), dashboard})

SpecReuse == Init /\ [][NextReuse]_vars

\* one user, one code, and a store whose operations may fail
NextFaults ==
  \/ Requests(MaxReqs, {null, Token("u1", TRUE)}, {T1}, {null, ab}, {AAAAAA},
              {1}, {ab, dashboard})
  \/ \E r \in BagToSet(reqs) : StoreFails(r)

SpecFaults == Init /\ [][NextFaults]_vars

-----------------------------------------------------------------------------
(* The prototype service (src/index.js): its own Url collection, kept in    *)
(* urls, with documents of the schema of models/url and no unique index     *)

\* validator.isURL with its default options: http, https and ftp, or no
\* protocol at all, in front of a host name with a top-level domain
isURL(str) == str \in {T1, T2, TFtp, TRel}

\* shortid.generate(): the n-th id drawn in this process; the generator
\* counts its draws, so one process never returns the same id twice
shortidGenerate(n) == <<"shortid", n>>

\* new Url({ originalUrl, shortId, shortUrl }), with date defaulting to now
protoNewUrl(originalUrl, n) ==
  [ _id |-> n, originalUrl |-> originalUrl, shortId |-> shortidGenerate(n),
    shortUrl |-> <<"http://localhost:5000/", shortidGenerate(n)>>, date |-> n ]

protoNoUrl ==
  [ _id |-> 0, originalUrl |-> "", shortId |-> <<"shortid", 0>>,
    shortUrl |-> <<"http://localhost:5000/", <<"shortid", 0>>>>, date |-> 0 ]

\* res.json(body), res.status(code).json(body), res.redirect(to)
protoJson(code, body) == <<"json", code, body>>

protoBlankReq ==
  [ kind |-> "", pc |-> "done", res |-> NoRes, originalUrl |-> "",
    shortId |-> <<"shortid", 0>>, url |-> protoNoUrl ]

\* POST /shorten up to its first await
protoShortenStart(originalUrl) ==
  LET q == [protoBlankReq EXCEPT !.kind = "shorten", !.originalUrl = originalUrl]
  IN  IF ~isURL(originalUrl)
        THEN Arrive([q EXCEPT !.res = protoJson(400, "Invalid URL")])
        ELSE Arrive([q EXCEPT !.pc = "findOne"])

\* let url = await Url.findOne({ originalUrl }); a hit is returned as it is,
\* a miss builds the new document and issues the save
protoShortenFind(r) ==
  /\ At(r, "shorten", "findOne")
  /\ LET found == {u \in urls : u.originalUrl = r.originalUrl} IN
       IF found # {}
         THEN /\ \E url \in found :
                   Step(r, [r EXCEPT !.url = url, !.res = protoJson(200, url),
                                     !.pc = "done"])
              /\ UNCHANGED nextId
         ELSE /\ Step(r, [r EXCEPT !.url = protoNewUrl(r.originalUrl, nextId),
                                   !.pc = "save"])
              /\ nextId' = nextId + 1
  /\ UNCHANGED urls

\* await url.save(); res.json(url)
protoShortenSave(r) ==
  /\ At(r, "shorten", "save")
  /\ urls' = urls \cup {r.url}
  /\ Step(r, [r EXCEPT !.res = protoJson(200, r.url), !.pc = "done"])
  /\ UNCHANGED nextId

\* GET /:shortId up to its await
protoGetStart(shortId) ==
  Arrive([protoBlankReq EXCEPT !.kind = "get", !.shortId = shortId,
                               !.pc = "findOne"])

\* const url = await Url.findOne({ shortId }); redirect or 404
protoGetFind(r) ==
  /\ At(r, "get", "findOne")
  /\ LET found == {u \in urls : u.shortId = r.shortId} IN
       IF found # {}
         THEN \E url \in found :
                Step(r, [r EXCEPT !.url = url, !.res = Redirect(url.originalUrl),
                                  !.pc = "done"])
         ELSE Step(r, [r EXCEPT !.res = protoJson(404, "URL not found"),
                                !.pc = "done"])
  /\ UNCHANGED <<urls, nextId>>

\* concurrent requests to the prototype service on two targets
NextProto ==
  \/ /\ BagCardinality(reqs) < MaxProtoReqs
     /\ \E originalUrl \in {T1, T2, ""} : protoShortenStart(originalUrl)
  \/ \E r \in BagToSet(reqs) : protoShortenFind(r)
  \/ \E r \in BagToSet(reqs) : protoShortenSave(r)
  \/ /\ BagCardinality(reqs) < MaxProtoReqs
     /\ \E n \in 1..2 : protoGetStart(shortidGenerate(n))
  \/ \E r \in BagToSet(reqs) : protoGetFind(r)

SpecProto == Init /\ [][NextProto]_vars

-----------------------------------------------------------------------------
(* Properties *)

Reqs == BagToSet(reqs)

\* the requests that took the custom-alias path / the random path
IsCustom(q) == q.kind = "shorten" /\ CustomShort(q.custom) # null
IsRandom(q) == q.kind = "shorten" /\ CustomShort(q.custom) = null

\* request q took a step in this transition
Stepped(q) == CopiesIn(q, reqs') < CopiesIn(q, reqs)

\* request q2 is what a request became in this transition
Became(q2) == CopiesIn(q2, reqs') > CopiesIn(q2, reqs)

RECURSIVE Count(_)
\* the number of requests of the bag among the set S of its elements
Count(S) ==
  IF S = {} THEN 0
  ELSE LET q == CHOOSE x \in S : TRUE IN CopiesIn(q, reqs) + Count(S \ {q})

\* the redirect requests whose increment of document id was issued and applied
Counted(id) ==
  {q \in Reqs : q.kind = "short" /\ q.pc = "done" /\ q.url._id = id}

\* C1: in every reachable state no two stored Links have the same short code,
\* under any interleaving of shorten requests (custom or random) and deletes.
C1_UniqueShortUrl ==
  \A u, v \in urls : u.shortUrl = v.shortUrl => u = v

\* two requests claimed one code: one created the Link, the index rejected
\* the other one's create
C1_Witness ==
  \E q \in Reqs, u \in urls :
    /\ q.kind = "shorten" /\ q.pc = "failed"
    /\ u.shortUrl = q.short

\* C2: K redirect requests on the code of a Link that stays in the store, in
\* any interleaving, each answer with a redirect to its targetUrl and together
\* raise its clickCount by exactly K (it is 0 at creation).
C2_EveryHitCounted ==
  \A u \in urls :
    /\ u.clicks = Count(Counted(u._id))
    /\ \A q \in Counted(u._id) : q.res = Redirect(u.fullUrl)

\* two redirects that both looked the Link up before either was counted
C2_Witness ==
  \E u \in urls : \E q \in Counted(u._id) :
    /\ CopiesIn(q, reqs) >= 2
    /\ u.clicks >= 2

\* C3: when two shorten requests claim one custom alias and both pass the
\* availability check, the one whose create the store rejects is answered
\* 'Custom alias already taken'.
C3_LoserGetsAliasTaken ==
  \A q \in Reqs : (IsCustom(q) /\ q.pc = "failed") => q.res = AliasTaken

\* what the random path has done by a state: never more than 5 attempts, and
\* the exhaustion answer only after the 5th attempt and without a Link
C4_AttemptsBounded ==
  \A q \in Reqs : q.kind = "shorten" =>
    /\ q.attempts <= MaxAttempts
    /\ q.res = AllocationExhausted =>
         (IsRandom(q) /\ q.attempts = MaxAttempts /\ q.made = 0)

\* what one check of a candidate leads to: the create of that candidate when
\* the store reports it free, another attempt when it is taken and fewer than
\* 5 were made, the exhaustion answer when the 5th is taken; no Link is made
\* by the check itself
C4_CheckStep ==
  \A q \in Reqs : (q.kind = "shorten" /\ q.pc = "randFind" /\ Stepped(q)) =>
    /\ urls' = urls
    /\ IF findOne(q.short) = noDoc
         THEN Became([q EXCEPT !.pc = "create"])
       ELSE IF q.attempts < MaxAttempts
         THEN \E q2 \in BagToSet(reqs') :
                /\ Became(q2)
                /\ q2.pc = "randFind"
                /\ q2.attempts = q.attempts + 1
       ELSE Became([q EXCEPT !.res = AllocationExhausted, !.pc = "done"])

\* C4: the random path makes at most 5 generate-and-check attempts, creates
\* the Link with the first candidate the store reports free, and after 5 taken
\* candidates fails with AllocationExhausted, with no 6th attempt and no Link.
C4_AtMostFiveAttempts == [][C4_AttemptsBounded' /\ C4_CheckStep]_vars

\* a request that found all 5 of its candidates taken
C4_Witness ==
  \E q \in Reqs :
    /\ IsRandom(q)
    /\ q.res = AllocationExhausted
    /\ q.attempts = MaxAttempts

\* C5: a shorten request whose custom alias is the code of a stored Link when
\* the handler checks it is answered AliasTaken and the store is left as it
\* is: no Link is created and the existing Link is not modified.
C5_TakenAliasRefused ==
  [][\A q \in Reqs :
       ( /\ IsCustom(q) /\ q.pc = "customFind" /\ Stepped(q)
         /\ \E u \in urls : u.shortUrl = q.short )
       => /\ urls' = urls
          /\ Became([q EXCEPT !.res = AliasTaken, !.pc = "done"])]_vars

\* an alias refused to a user other than the owner of the Link that holds it
C5_Witness ==
  \E q \in Reqs, u \in urls :
    /\ IsCustom(q)
    /\ q.res = AliasTaken
    /\ u.shortUrl = q.short
    /\ u.user # q.user

\* the alias policy of the specification's Alias Validator
AliasChar == {chars[i] : i \in 1..Len(chars)} \cup {"_", "-"}

ReservedWords ==
  { <<"a","p","i">>, <<"a","d","m","i","n">>, <<"w","w","w">>,
    <<"l","o","g","i","n">>, <<"r","e","g","i","s","t","e","r">>,
    dashboard, <<"s","h","o","r","t","e","n">>, <<"d","e","l","e","t","e">>,
    <<"l","o","g","o","u","t">> }

ValidAlias(a) ==
  /\ Len(a) >= 2 /\ Len(a) <= 20
  /\ \A i \in 1..Len(a) : a[i] \in AliasChar
  /\ ToLower(a) \notin ReservedWords

\* C6: a custom alias is accepted iff it has 2 to 20 characters, all in
\* [A-Za-z0-9_-], and is not a reserved word; for any other alias the request
\* is rejected and no Link is created.
C6_AliasPolicy ==
  \A q \in Reqs : IsCustom(q) =>
    LET alias == CustomShort(q.custom) IN
    /\ ~ValidAlias(alias) => q.made = 0
    /\ (ValidAlias(alias) /\ q.user # noUser /\ q.fullUrl # "" /\ q.pc = "done")
         => (q.made # 0 \/ q.res = AliasTaken)

\* C7: every stored Link is reachable by its code: GET /<code> is handled by
\* the redirect route and its lookup yields that Link's targetUrl.
C7_EveryLinkReachable ==
  \A u \in urls :
    /\ Route(u.shortUrl) = "short"
    /\ findOne(u.shortUrl).fullUrl = u.fullUrl

\* C8: a Link created with no custom alias has a code of exactly 6 characters
\* of the 62-symbol alphabet, and a redirect request on that code resolves to
\* exactly the submitted target URL.
C8_RoundTrip ==
  \A q \in Reqs : \A u \in urls :
    (IsRandom(q) /\ q.made = u._id) =>
      /\ Len(u.shortUrl) = CodeLen
      /\ \A i \in 1..Len(u.shortUrl) : \E j \in 1..Len(chars) : u.shortUrl[i] = chars[j]
      /\ Route(u.shortUrl) = "short"
      /\ findOne(u.shortUrl).fullUrl = q.fullUrl

\* C9: POST /delete/:id removes a Link only when the requester is its owner;
\* a delete by another user, or of an unknown id, leaves the store as it is.
C9_OnlyOwnerDeletes ==
  [][ /\ \A u \in urls :
           (\A v \in urls' : v._id # u._id) =>
             /\ \E q \in Reqs :
                  /\ q.kind = "delete" /\ q.pc = "delete" /\ Stepped(q)
                  /\ q.id = u._id
                  /\ q.user = u.user
             /\ urls' = urls \ {u}
      /\ \A q \in Reqs :
           ( /\ q.kind = "delete" /\ q.pc = "delete" /\ Stepped(q)
             /\ \A u \in urls : ~(u._id = q.id /\ u.user = q.user) )
           => urls' = urls ]_vars

\* an answered delete request of a user who does not own the Link it names,
\* and that Link in the store
C9_Witness ==
  \E q \in Reqs, u \in urls :
    /\ q.kind = "delete" /\ q.pc = "done"
    /\ q.res = Redirect("/dashboard")
    /\ q.id = u._id
    /\ q.user # u.user

\* C10: a Link's clickCount is 0 at creation, a non-negative integer in every
\* state, and never decreases across a step while the Link exists.
C10_ClicksMonotone ==
  [][\A v \in urls' :
       /\ v.clicks \in Nat
       /\ IF \E u \in urls : u._id = v._id
            THEN \A u \in urls : u._id = v._id => v.clicks >= u.clicks
            ELSE v.clicks = 0]_vars

\* a Link that has been hit next to a Link created later with count 0
C10_Witness ==
  \E u, v \in urls :
    /\ u.clicks >= 1
    /\ v.clicks = 0
    /\ v._id > u._id

\* C11: a redirect request on a code for which the store holds no Link is
\* answered 'URL not found', issues no redirect and leaves the store as it
\* is: no Link is created and no clickCount changes.
C11_UnknownCodeNotFound ==
  [][\A q \in Reqs :
       ( /\ q.kind = "short" /\ q.pc = "find" /\ Stepped(q)
         /\ \A u \in urls : u.shortUrl # q.short )
       => /\ urls' = urls
          /\ Became([q EXCEPT !.res = NotFound, !.pc = "done"])]_vars

\* a redirect request answered 'URL not found' while the store holds Links
\* under other codes only
C11_Witness ==
  \E q \in Reqs :
    /\ q.kind = "short" /\ q.pc = "done"
    /\ q.res = NotFound
    /\ urls # {}
    /\ \A u \in urls : u.shortUrl # q.short

\* the scheme a URL parser reads off each of the submitted targets ("" when
\* the text has none)
Scheme(url) ==
  CASE url = T1   -> "https"
    [] url = T2   -> "http"
    [] url = TJs  -> "javascript"
    [] url = TFtp -> "ftp"
    [] OTHER      -> ""

WellFormedHttpUrl(url) == Scheme(url) \in {"http", "https"}

\* C12: every stored Link has a well-formed absolute http or https targetUrl;
\* a shorten request with any other target creates no Link.
C12_TargetsAreHttpUrls ==
  /\ \A u \in urls : WellFormedHttpUrl(u.fullUrl)
  /\ \A q \in Reqs :
       (q.kind = "shorten" /\ ~WellFormedHttpUrl(q.fullUrl)) => q.made = 0

\* C13: on the custom and on the random path, a shorten request is answered
\* with the redirect to /dashboard only once the Link with its code, its
\* target and its user as owner has been created: the step that sends the
\* answer leaves that new Link in the store.
C13_CreatedBeforeSuccess ==
  [][\A q \in BagToSet(reqs') :
       ( /\ Became(q)
         /\ q.kind = "shorten" /\ q.short # null
         /\ q.res = Redirect("/dashboard") )
       => \E u \in urls' \ urls :
            /\ u._id = q.made
            /\ u.shortUrl = q.short
            /\ u.fullUrl = q.fullUrl
            /\ u.user = q.user]_vars

\* a request of each path answered with success, both Links in the store
C13_Witness ==
  \E q1, q2 \in Reqs : \E u1, u2 \in urls :
    /\ IsCustom(q1) /\ q1.res = Redirect("/dashboard") /\ u1._id = q1.made
    /\ IsRandom(q2) /\ q2.res = Redirect("/dashboard") /\ u2._id = q2.made

\* C14: no hit is silently dropped: when the handler of a redirect request
\* whose lookup found the Link ends, the increment has been applied in the
\* store or the failed count has been logged.  The handler has no statement
\* that logs, so the step that ends it must raise the Link's clickCount.
C14_NoHitSilentlyDropped ==
  [][\A q \in Reqs :
       (q.kind = "short" /\ q.pc = "inc" /\ Stepped(q)) =>
         \E u \in urls, v \in urls' :
           /\ u._id = q.url._id
           /\ v._id = u._id
           /\ v.clicks = u.clicks + 1]_vars

\* C15: every request ends with a response, also when a store operation it
\* issued fails: a handler that is no longer awaiting the store has sent one.
C15_EveryRequestAnswered ==
  \A q \in Reqs :
    q.pc \notin Awaiting => q.res[1] \in {"redirect", "send", "render"}

\* C16: the only change a step makes to a Link that stays in the store is the
\* redirect handler adding 1 to its clickCount, and only for the Link that
\* handler looked up; code, targetUrl, ownerId and createdAt never change, and
\* shorten, delete, dashboard and the static pages leave every field alone.
C16_Frame ==
  [][\A u \in urls : \A v \in urls' :
       v._id = u._id =>
         /\ v.shortUrl = u.shortUrl
         /\ v.fullUrl = u.fullUrl
         /\ v.user = u.user
         /\ v.createdAt = u.createdAt
         /\ \/ v.clicks = u.clicks
            \/ /\ v.clicks = u.clicks + 1
               /\ \E q \in Reqs :
                    /\ q.kind = "short" /\ q.pc = "inc" /\ Stepped(q)
                    /\ q.url._id = u._id
                    /\ q.short = u.shortUrl]_vars

\* two Links, one hit once through its code and the other never
C16_Witness ==
  \E u, v \in urls :
    /\ u.shortUrl # v.shortUrl
    /\ u.clicks = 1 /\ v.clicks = 0
    /\ \E q \in Counted(u._id) : q.short = u.shortUrl

\* the routes behind requireAuth, and the requests whose cookie is missing or
\* fails verification
Protected(q) == q.kind \in {"shorten", "delete", "dashboard"}
Unverified(q) == q.token = null \/ ~q.token[3]

\* C17: a request to GET /dashboard, POST /shorten or POST /delete/:id with
\* no token, or with a token that fails verification, is redirected to /login
\* on arrival and never reaches a store operation: it reads, creates and
\* deletes nothing.
C17_ProtectedRoutes ==
  [][\A q \in BagToSet(reqs') :
       (Protected(q) /\ Unverified(q)) =>
         /\ q.pc = "done"
         /\ q.res = Redirect("/login")
         /\ q.made = 0
         /\ q.url = noDoc
         /\ Became(q) => (urls' = urls /\ nextId' = nextId)]_vars

\* a shorten request without a cookie and a delete request whose forged token
\* names the owner of the stored Link it asks to delete, both sent to /login
C17_Witness ==
  \E q1, q2 \in Reqs : \E u \in urls :
    /\ q1.kind = "shorten" /\ q1.token = null /\ q1.res = Redirect("/login")
    /\ q2.kind = "delete" /\ q2.token = Token(u.user, FALSE)
    /\ q2.id = u._id
    /\ q2.res = Redirect("/login")

\* C18: the redirect route answers with status 404 when no Link has the code,
\* and with a redirect to the Link's target when one has.
C18_NotFoundIs404 ==
  \A q \in Reqs :
    (q.kind = "short" /\ q.pc = "done") =>
      IF q.url = noDoc
        THEN Status(q.res) = 404
        ELSE q.res = Redirect(q.url.fullUrl)

\* a redirect request that has read a Link which is no longer in the store
Orphaned(q) ==
  /\ q.kind = "short"
  /\ q.pc = "inc"
  /\ ~\E u \in urls : u._id = q.url._id

\* C19: when the Link a redirect request has read is deleted before the
\* request's increment is applied, the increment changes nothing in the store
\* (the Link is not recreated and no other Link is touched) and the request
\* completes by redirecting to the target it read.
C19_BenignRace ==
  [][\A q \in Reqs :
       (Orphaned(q) /\ Stepped(q)) =>
         /\ urls' = urls
         /\ nextId' = nextId
         /\ Became([q EXCEPT !.res = Redirect(q.url.fullUrl), !.pc = "done"])]_vars

\* the owner's delete request has completed between the lookup and the
\* increment of a redirect request on the same Link
C19_Witness ==
  \E q, d \in Reqs :
    /\ Orphaned(q)
    /\ d.kind = "delete" /\ d.pc = "done"
    /\ d.id = q.url._id
    /\ d.user = q.url.user

\* the sum of the click counts of a set of Links, taken id by id
TotalOf(S) ==
  LET f[n \in 0..nextId] ==
        IF n = 0 THEN 0
        ELSE f[n - 1] + (IF \E u \in S : u._id = n
                           THEN (CHOOSE u \in S : u._id = n).clicks
                           ELSE 0)
  IN  f[nextId]

\* C20: the dashboard shows a user exactly the Links that user owns, as the
\* store holds them when the request reads, and its totalLinks and
\* totalClicks are the number of those Links and the sum of their click
\* counts.
C20_DashboardIsMine ==
  [][\A q \in Reqs :
       (q.kind = "dashboard" /\ q.pc = "find" /\ Stepped(q)) =>
         LET mine == {u \in urls : u.user = q.user} IN
           Became([q EXCEPT !.res = <<"render", "dashboard", mine, TotalOf(mine),
                                      Cardinality(mine)>>,
                            !.pc = "done"])]_vars

\* a dashboard that lists its user's Link while the store also holds a Link
\* of another user
C20_Witness ==
  \E q \in Reqs :
    /\ q.kind = "dashboard" /\ q.pc = "done" /\ q.user # noUser
    /\ q.res[3] # {}
    /\ \A u \in q.res[3] : u.user = q.user
    /\ \E u \in urls : u.user # q.user

\* no Link of the store holds the code
Free(c) == ~\E u \in urls : u.shortUrl = c

\* C21: once its owner has deleted a Link, no Link holds its code; a redirect
\* on a code no Link holds answers NotFound; a shorten request that finds its
\* code held by no Link goes on to create, and the Link it creates has a
\* fresh id, zero clicks and the target and owner of that request.
C21_CodeFreeAfterDelete ==
  [][/\ \A d \in Reqs :
          (d.kind = "delete" /\ d.pc = "delete" /\ Stepped(d)) =>
            \A u \in urls :
              (u._id = d.id /\ u.user = d.user) =>
                ~\E v \in urls' : v.shortUrl = u.shortUrl \/ v._id = u._id
     /\ \A q \in Reqs :
          (q.kind = "short" /\ q.pc = "find" /\ Stepped(q) /\ Free(q.short)) =>
            Became([q EXCEPT !.res = NotFound, !.pc = "done"])
     /\ \A q \in Reqs :
          ( /\ q.kind = "shorten" /\ q.pc \in {"customFind", "randFind"}
            /\ Stepped(q) /\ Free(q.short) ) =>
            Became([q EXCEPT !.pc = "create"])
     /\ \A q \in Reqs :
          (q.kind = "shorten" /\ q.pc = "create" /\ Stepped(q) /\ Free(q.short)) =>
            /\ \A u \in urls : u._id < nextId
            /\ urls' = urls \cup
                 {[ _id |-> nextId, fullUrl |-> q.fullUrl, shortUrl |-> q.short,
                    user |-> q.user, clicks |-> 0, createdAt |-> nextId ]}
            /\ Became([q EXCEPT !.res = Redirect("/dashboard"),
                                !.made = nextId, !.pc = "done"])]_vars

\* a custom alias was created, visited and deleted by its owner, and another
\* user's random draw has since produced the same code: the store holds that
\* user's new Link with zero clicks and nothing of the old one
C21_Witness ==
  \E s, r, d, n \in Reqs : \E u \in urls :
    /\ s.kind = "shorten" /\ s.made # 0 /\ s.custom # null
    /\ r.kind = "short" /\ r.pc = "done" /\ r.url._id = s.made
    /\ d.kind = "delete" /\ d.pc = "done" /\ d.id = s.made /\ d.user = s.user
    /\ n.kind = "shorten" /\ n.made > s.made /\ n.custom = null
    /\ n.short = s.short /\ n.user # s.user
    /\ u._id = n.made /\ u.shortUrl = s.short /\ u.user = n.user /\ u.clicks = 0
    /\ ~\E v \in urls : v._id = s.made

\* C22: after any interleaving of shorten requests to the prototype service
\* the store holds at most one record per originalUrl and no two records
\* share a shortId.
C22_OneRecordPerTarget ==
  \A u, v \in urls :
    (u.originalUrl = v.originalUrl \/ u.shortId = v.shortId) => u = v

=============================================================================
